---- MODULE Spec2Model ----
(***************************************************************************)
(* A model of the Tri-Lighting operator (lighting_tri_lights.py):          *)
(* OBJECT_OT_TriLighting.execute, statement by statement, over a scene     *)
(* that holds a target object, possibly a camera, and the entities the     *)
(* operator creates.                                                       *)
(*                                                                         *)
(* Number representation.  The operator computes in floating point.  The   *)
(* model computes in exact integer arithmetic:                             *)
(*   - energies are kept in hundredths (EnergyScale);                      *)
(*   - sin and cos are a table in thousandths (TrigScale);                 *)
(*   - radians() yields milliradians (MilliPi / 180 per degree);           *)
(*   - a unit vector and a light position are rational vectors             *)
(*     [x, y, z, den], the value being (x/den, y/den, z/den);              *)
(*   - sizes are in hundredths, blend fractions in thousandths; they are   *)
(*     only copied.                                                        *)
(* Camera and object positions are integer vectors whose distance is an    *)
(* integer, so that sqrt is exact.                                         *)
(***************************************************************************)
EXTENDS Integers, Sequences, FiniteSets, TLC

\* ------------------------------------------------------------- bounds

\* Base energy ranges over 1..MaxEnergy.
MaxEnergy == 3

\* Camera offsets from the object range over the integer vectors of the cube
\* [-MaxCoord, MaxCoord]^3 that have an integer length.
MaxCoord == 2

\* ------------------------------------------------- program constants

MinEnergy == 1

MinContrast == -100

MaxContrast == 100

EnergyScale == 100

\* Resolution of the sin/cos table (thousandths).
TrigScale == 1000

\* pi in thousandths, for radians().
MilliPi == 3142

None == "None"

Light_Type_List == {"POINT", "SUN", "SPOT", "AREA"}

Light_Shape_List == {"SQUARE", "RECTANGLE", "DISK", "ELLIPSE"}

ReportCancelled == "Operation Cancelled. No viable object in the scene"

ReportException == "Some operations could not be performed (See Console for more info)"

\* Property defaults of the operator.
DefaultProps ==
    [ height |-> 5, distance |-> 5, energy |-> 3, contrast |-> 50,
      leftangle |-> 26, rightangle |-> 45, backangle |-> 235,
      primarytype |-> "AREA", secondarytype |-> "AREA",
      key_light_shape |-> "SQUARE", secondary_light_shape |-> "SQUARE",
      key_light_size |-> 25, secondary_light_size |-> 25,
      shadow_soft_size_key |-> 0, shadow_soft_size_fill |-> 0,
      spot_size_key |-> 45, spot_blend_key |-> 150,
      spot_size_fill |-> 45, spot_blend_fill |-> 150 ]

\* ------------------------------------------------------ pure helpers

Vec(x, y, z) == [x |-> x, y |-> y, z |-> z]

Origin == Vec(0, 0, 0)

\* mathutils.Vector subtraction.
VecSub(a, b) == Vec(a.x - b.x, a.y - b.y, a.z - b.z)

VecAdd(a, b) == Vec(a.x + b.x, a.y + b.y, a.z + b.z)

abs(n) == IF n < 0 THEN -n ELSE n

\* math.sqrt on the sums of squares the model feeds it (perfect squares give
\* the exact root; otherwise the floor).
sqrt(s) == CHOOSE n \in 0..s : n * n <= s /\ s < (n + 1) * (n + 1)

SumSquares(v) == v.x * v.x + v.y * v.y + v.z * v.z

\* sin of 0..90 degrees, in thousandths.
SinTable ==
    << 0, 17, 35, 52, 70, 87, 105, 122, 139, 156, 174, 191, 208,
       225, 242, 259, 276, 292, 309, 326, 342, 358, 375, 391, 407, 423,
       438, 454, 469, 485, 500, 515, 530, 545, 559, 574, 588, 602, 616,
       629, 643, 656, 669, 682, 695, 707, 719, 731, 743, 755, 766, 777,
       788, 799, 809, 819, 829, 839, 848, 857, 866, 875, 883, 891, 899,
       906, 914, 921, 927, 934, 940, 946, 951, 956, 961, 966, 970, 974,
       978, 982, 985, 988, 990, 993, 995, 996, 998, 999, 999, 1000, 1000 >>

SinDeg(d) ==
    LET a == d % 360
    IN  IF a <= 90 THEN SinTable[a + 1]
        ELSE IF a <= 180 THEN SinTable[180 - a + 1]
        ELSE IF a <= 270 THEN -SinTable[a - 180 + 1]
        ELSE -SinTable[360 - a + 1]

\* math.radians: degrees to milliradians.
radians(deg) == (deg * MilliPi) \div 180

\* The whole degree nearest to an angle given in milliradians.
DegreesOf(r) == (r * 180 + MilliPi \div 2) \div MilliPi

\* math.sin and math.cos of an angle in milliradians, in thousandths.
sin(r) == SinDeg(DegreesOf(r))

cos(r) == SinDeg(DegreesOf(r) + 90)

\* ------------------------------------------------------------ state

VARIABLES
    props,          \* the operator's properties (self.height, self.energy, ...)
    active,         \* view_layer.objects.active: an object id or None
    location,       \* the location of each object that exists before the call
    view,           \* context.space_data: [type, camera, viewpoint, perspective]
    scene_camera,   \* scene.camera: a camera id or None
    cameras,        \* the camera entities execute has created, in order
    lights,         \* the light entities execute has created, in order
    local,          \* the local variables of execute
    cur,            \* index in RoleOrder of the light being built (0: none)
    pc,             \* the statement of execute that runs next
    reports,        \* the (level, message) pairs given to self.report
    result,         \* the return value of execute, None while it runs
    raised,         \* whether a statement of the try block raised
    entry           \* the scene camera and the view camera before the call

vars == << props, active, location, view, scene_camera, cameras, lights,
           local, cur, pc, reports, result, raised, entry >>

scene_in == << props, active, location, entry >>

\* The camera execute creates when it finds none.
NewCam == "NewCam"

\* The objects that exist before the call.
Target == "Target"

Cam0 == "Cam0"

\* location of an object: of one that existed, or of the camera just created.
LocationOf(id) == IF id = NewCam THEN cameras[1].location ELSE location[id]

\* ------------------------------------------------- per-light choices

\* The order in which execute builds the lights.
RoleOrder == << "Back", "Fill", "Key" >>

Role == RoleOrder[cur]

\* Mutant: the key light built under the fill light's name.
LightName_CopyPaste(role) ==
    CASE role = "Back" -> "TriLamp-Back"
      [] role = "Fill" -> "TriLamp-Fill"
      [] role = "Key"  -> "TriLamp-Fill"

LightName(role) ==
    CASE role = "Back" -> "TriLamp-Back"
      [] role = "Fill" -> "TriLamp-Fill"
      [] role = "Key"  -> "TriLamp-Key"

\* Mutant: every light of the secondary kind.
LightType_AllSecondary(role) == props.secondarytype

LightType(role) ==
    IF role = "Key" THEN props.primarytype ELSE props.secondarytype

LightEnergy(role) ==
    CASE role = "Back" -> local.backEnergy
      [] role = "Fill" -> local.fillEnergy
      [] role = "Key"  -> local.keyEnergy

LightShape(role) ==
    IF role = "Key" THEN props.key_light_shape ELSE props.secondary_light_shape

LightSize(role) ==
    IF role = "Key" THEN props.key_light_size ELSE props.secondary_light_size

\* spot_size is given in degrees and stored in radians.
LightSpotSize(role) ==
    IF role = "Key" THEN radians(props.spot_size_key)
    ELSE radians(props.spot_size_fill)

LightSpotBlend(role) ==
    IF role = "Key" THEN props.spot_blend_key ELSE props.spot_blend_fill

LightShadowSoftSize(role) ==
    IF role = "Key" THEN props.shadow_soft_size_key
    ELSE props.shadow_soft_size_fill

\* The kinds for which each group of attributes is written.
AreaKinds == {"AREA"}

SpotKinds == {"SPOT"}

ShadowKinds == {"POINT", "SPOT"}

\* Mutant: the left angle not negated.
LightAngle_NoNegation(role) ==
    CASE role = "Back" -> props.backangle
      [] role = "Fill" -> props.rightangle
      [] role = "Key"  -> props.leftangle

\* The rotation angle of each light, in degrees.
LightAngle(role) ==
    CASE role = "Back" -> props.backangle
      [] role = "Fill" -> props.rightangle
      [] role = "Key"  -> -props.leftangle

\* x and y of single_vector rotated by t degrees, in thousandths of the
\* vector's own unit (single_vector.den).
RotatedX(t, v) == cos(radians(t)) * v.x + (-sin(radians(t)) * v.y)

RotatedY(t, v) == sin(radians(t)) * v.x + (cos(radians(t)) * v.y)

\* The z coordinate given to every light.
LightZ == props.height

\* (backx, backy, self.height) and its like: a rational vector.
LightLocation(role) ==
    LET v == local.single_vector
        p == LocationOf(local.obj)
        D == v.den * TrigScale
    IN  [ x |-> p.x * D + props.distance * RotatedX(LightAngle(role), v),
          y |-> p.y * D + props.distance * RotatedY(LightAngle(role), v),
          z |-> LightZ * D,
          den |-> D ]

\* Mutant: the contrast used with its sign.
KeyEnergy_NoAbs ==
    IF props.contrast > 0
    THEN props.energy * EnergyScale
    ELSE ((props.energy * EnergyScale) \div 100) * props.contrast

\* The energy split, in hundredths.
KeyEnergy ==
    IF props.contrast > 0
    THEN props.energy * EnergyScale
    ELSE ((props.energy * EnergyScale) \div 100) * abs(props.contrast)

BackEnergy ==
    IF props.contrast > 0
    THEN ((props.energy * EnergyScale) \div 100) * abs(props.contrast)
    ELSE props.energy * EnergyScale

FillEnergy ==
    IF props.contrast > 0
    THEN ((props.energy * EnergyScale) \div 100) * abs(props.contrast)
    ELSE props.energy * EnergyScale

\* Mutant: the view's camera ignored.
ContextCamera_SceneOnly == scene_camera

\* The camera execute starts from.
ContextCamera == IF view.type = "VIEW_3D" THEN view.camera ELSE scene_camera

\* Mutant: the lights track the camera.
TrackTarget_Camera == local.camera

\* The target given to a track-to constraint.
TrackTarget == local.obj

\* d with attribute k written.
SetAttr(d, k, v) == [a \in DOMAIN d \cup {k} |-> IF a = k THEN v ELSE d[a]]

\* lights with the light being built changed.
WithLast(f, v) == [lights EXCEPT ![Len(lights)] = SetAttr(@, f, v)]

WithData(k, v) ==
    [lights EXCEPT ![Len(lights)].data = SetAttr(@, k, v)]

WithConstraint(k, v) ==
    [lights EXCEPT ![Len(lights)].constraints =
        [@ EXCEPT ![Len(@)] = SetAttr(@, k, v)]]

\* ------------------------------------------------------------- Init

NoLocals ==
    [ camera |-> None, obj |-> None,
      keyEnergy |-> 0, backEnergy |-> 0, fillEnergy |-> 0,
      delta_position |-> Origin, vector_length |-> 0,
      single_vector |-> [x |-> 0, y |-> 0, z |-> 0, den |-> 1] ]

\* Nothing created, execute not yet called.
Fresh ==
    /\ cameras = << >>
    /\ lights = << >>
    /\ local = NoLocals
    /\ cur = 0
    /\ pc = "idle"
    /\ reports = << >>
    /\ result = None
    /\ raised = FALSE

Locations(t, c) == (Target :> t) @@ (Cam0 :> c)

\* A 3D view looking through the scene camera at (0, -5, 0), the target
\* object at the origin and active.
DefaultScene ==
    /\ active = Target
    /\ location = Locations(Origin, Vec(0, -5, 0))
    /\ view = [ type |-> "VIEW_3D", camera |-> Cam0,
                viewpoint |-> Vec(3, 4, 0), perspective |-> "PERSP" ]
    /\ scene_camera = Cam0

Coords == (-MaxCoord) .. MaxCoord

\* Camera offsets of integer length (the zero offset among them).
Deltas ==
    { v \in [x : Coords, y : Coords, z : Coords] :
        sqrt(SumSquares(v)) * sqrt(SumSquares(v)) = SumSquares(v) }

ObjPositions == { Origin, Vec(1, -2, 3) }

\* The distance between two integer points is an integer.
IntegerDistance(a, b) ==
    LET s == SumSquares(VecSub(a, b)) IN sqrt(s) * sqrt(s) = s

\* Scenes: which object is active, where the camera is, which view the
\* operator runs in, whether the view and the scene have a camera, where the
\* viewpoint is.
InitScene ==
    /\ props = DefaultProps
    /\ active \in {Target, Cam0, None}
    /\ \E c \in {Vec(0, -5, 0), Origin, Vec(0, 0, 12)} :
          location = Locations(Origin, c)
    /\ \E ty \in {"VIEW_3D", "PROPERTIES"}, vc \in {Cam0, None},
          vp \in {Origin, Vec(0, -5, 0), Vec(0, 0, -12)} :
          view = [ type |-> ty, camera |-> vc, viewpoint |-> vp,
                   perspective |-> "PERSP" ]
    /\ scene_camera \in {Cam0, None}
    /\ \A a \in {location[Target], location[Cam0]},
          b \in {location[Cam0], view.viewpoint} : IntegerDistance(a, b)

\* Every contrast, base energies from the minimum up.
InitEnergy ==
    /\ DefaultScene
    /\ \E e \in MinEnergy .. MaxEnergy, c \in MinContrast .. MaxContrast :
          props = [DefaultProps EXCEPT !.energy = e, !.contrast = c]

\* Geometry: object position, camera offset, angles, distance, height.
InitPlacement ==
    /\ active = Target
    /\ \E o \in ObjPositions, d \in Deltas :
          location = Locations(o, VecAdd(o, d))
    /\ view = [ type |-> "VIEW_3D", camera |-> Cam0,
                viewpoint |-> Origin, perspective |-> "PERSP" ]
    /\ scene_camera = Cam0
    /\ \E h \in {-1, 5}, dist \in {1, 5},
          la \in {26, 90}, ra \in {45, 90}, ba \in {90, 235} :
          props = [DefaultProps EXCEPT !.height = h, !.distance = dist,
                      !.leftangle = la, !.rightangle = ra, !.backangle = ba]

\* Light kinds, with key values that differ from the fill + back values.
InitTypes ==
    /\ DefaultScene
    /\ \E pt \in Light_Type_List, st \in Light_Type_List,
          ks \in {"DISK", "SQUARE"}, ka \in {1, 90, 180} :
          props = [DefaultProps EXCEPT
                      !.primarytype = pt, !.secondarytype = st,
                      !.key_light_shape = ks,
                      !.secondary_light_shape = "RECTANGLE",
                      !.key_light_size = 50, !.secondary_light_size = 25,
                      !.shadow_soft_size_key = 10,
                      !.shadow_soft_size_fill = 20,
                      !.spot_size_key = ka, !.spot_size_fill = 45,
                      !.spot_blend_key = 300, !.spot_blend_fill = 150]

Init ==
    /\ Fresh
    /\ \/ InitScene
       \/ InitEnergy
       \/ InitPlacement
       \/ InitTypes
    /\ entry = [scene_camera |-> scene_camera, view_camera |-> view.camera]

\* ---------------------------------------------------------- actions

scene_out == << view, scene_camera, cameras, lights >>

Goto(label) == pc' = label /\ UNCHANGED << scene_in, reports, result, raised >>

\* poll: the operator runs only with an active object.
poll == active # None

Invoke ==
    /\ pc = "idle"
    /\ poll
    /\ Goto("context")
    /\ UNCHANGED << scene_out, local, cur >>

\* collection, scene, view; camera = view.camera or scene.camera;
\* then the test "camera is None".
ReadContext ==
    /\ pc = "context"
    /\ local' = [local EXCEPT !.camera = ContextCamera]
    /\ Goto(IF ContextCamera = None THEN "cameras_new" ELSE "active")
    /\ UNCHANGED << scene_out, cur >>

\* cam_data = bpy.data.cameras.new(name='Camera')
CamerasNew ==
    /\ pc = "cameras_new"
    /\ cameras' = Append(cameras,
          [ name |-> "Camera", hasObj |-> FALSE, linked |-> FALSE,
            location |-> Origin ])
    /\ Goto("camera_object")
    /\ UNCHANGED << view, scene_camera, lights, local, cur >>

\* cam_obj = bpy.data.objects.new(name='Camera', object_data=cam_data)
CameraObjectNew ==
    /\ pc = "camera_object"
    /\ cameras' = [cameras EXCEPT ![Len(cameras)].hasObj = TRUE]
    /\ Goto("camera_link")
    /\ UNCHANGED << view, scene_camera, lights, local, cur >>

\* collection.objects.link(cam_obj)
CameraLink ==
    /\ pc = "camera_link"
    /\ cameras' = [cameras EXCEPT ![Len(cameras)].linked = TRUE]
    /\ Goto("scene_camera")
    /\ UNCHANGED << view, scene_camera, lights, local, cur >>

\* scene.camera = cam_obj
SetSceneCamera ==
    /\ pc = "scene_camera"
    /\ scene_camera' = NewCam
    /\ Goto("camera_to_view")
    /\ UNCHANGED << view, cameras, lights, local, cur >>

\* bpy.ops.view3d.camera_to_view(); camera = cam_obj
\* The new camera is moved to the viewpoint.  Where the host refuses the
\* operator (outside a 3D view) the statement raises, which is Raise.
CameraToView ==
    /\ pc = "camera_to_view"
    /\ cameras' = [cameras EXCEPT ![Len(cameras)].location = view.viewpoint]
    /\ view' = [view EXCEPT !.perspective = "CAMERA"]
    /\ local' = [local EXCEPT !.camera = NewCam]
    /\ Goto("view_camera")
    /\ UNCHANGED << scene_camera, lights, cur >>

\* bpy.ops.view3d.view_camera(): leave the camera view again.
ViewCamera ==
    /\ pc = "view_camera"
    /\ view' = [view EXCEPT !.perspective =
                   IF @ = "CAMERA" THEN "PERSP" ELSE "CAMERA"]
    /\ Goto("active")
    /\ UNCHANGED << scene_camera, cameras, lights, local, cur >>

\* obj = bpy.context.view_layer.objects.active
ReadActive ==
    /\ pc = "active"
    /\ local' = [local EXCEPT !.obj = active]
    /\ Goto("calc_energy")
    /\ UNCHANGED << scene_out, cur >>

\* Calculate Energy for each Lamp
CalcEnergy ==
    /\ pc = "calc_energy"
    /\ local' = [local EXCEPT !.keyEnergy = KeyEnergy,
                              !.backEnergy = BackEnergy,
                              !.fillEnergy = FillEnergy]
    /\ Goto("delta")
    /\ UNCHANGED << scene_out, cur >>

\* delta_position = cam_position - obj_position; vector_length = sqrt(...)
CalcDelta ==
    /\ pc = "delta"
    /\ LET d == VecSub(LocationOf(local.camera), LocationOf(local.obj))
       IN  local' = [local EXCEPT !.delta_position = d,
                                  !.vector_length = sqrt(SumSquares(d))]
    /\ Goto("check_length")
    /\ UNCHANGED << scene_out, cur >>

\* Mutant: the length of the horizontal part only.
ZeroLength_Planar ==
    local.delta_position.x = 0 /\ local.delta_position.y = 0

\* The test of "if not vector_length".
ZeroLength == local.vector_length = 0

\* if not vector_length: report, return {'CANCELLED'}
CancelZeroLength ==
    /\ pc = "check_length"
    /\ ZeroLength
    /\ reports' = Append(reports, << "WARNING", ReportCancelled >>)
    /\ result' = "CANCELLED"
    /\ pc' = "done"
    /\ UNCHANGED << scene_in, scene_out, local, cur, raised >>

\* single_vector = (1 / vector_length) * delta_position
Normalize ==
    /\ pc = "check_length"
    /\ ~ZeroLength
    /\ local' = [local EXCEPT !.single_vector =
          [ x |-> local.delta_position.x, y |-> local.delta_position.y,
            z |-> local.delta_position.z, den |-> local.vector_length ]]
    /\ cur' = 1
    /\ Goto("lights_new")
    /\ UNCHANGED << scene_out >>

\* Mutant: the location set before the object is linked.
StepOrder_LocationFirst ==
    << "lights_new", "energy", "area", "spot", "shadow", "objects_new",
       "location", "link", "constraints_new", "target", "track_axis",
       "up_axis" >>

\* The statements that build one light, in program order.
StepOrder ==
    << "lights_new", "energy", "area", "spot", "shadow", "objects_new",
       "link", "location", "constraints_new", "target", "track_axis",
       "up_axis" >>

StepIndex(label) == CHOOSE i \in 1..Len(StepOrder) : StepOrder[i] = label

\* After the last statement of a light comes the next light, and after the
\* last light the return.
NextLight(label) ==
    IF StepIndex(label) < Len(StepOrder)
    THEN /\ Goto(StepOrder[StepIndex(label) + 1])
         /\ cur' = cur
    ELSE IF cur < Len(RoleOrder)
    THEN /\ Goto(StepOrder[1])
         /\ cur' = cur + 1
    ELSE /\ Goto("return")
         /\ cur' = 0

\* backData = bpy.data.lights.new(name="TriLamp-Back", type=self.secondarytype)
LightsNew ==
    /\ pc = "lights_new"
    /\ lights' = Append(lights,
          [ name |-> LightName(Role), data |-> [type |-> LightType(Role)],
            hasObj |-> FALSE, linked |-> FALSE, placed |-> FALSE,
            location |-> [x |-> 0, y |-> 0, z |-> 0, den |-> 1],
            constraints |-> << >> ])
    /\ NextLight("lights_new")
    /\ UNCHANGED << view, scene_camera, cameras, local >>

\* backData.energy = backEnergy
SetEnergy ==
    /\ pc = "energy"
    /\ lights' = WithData("energy", LightEnergy(Role))
    /\ NextLight("energy")
    /\ UNCHANGED << view, scene_camera, cameras, local >>

\* if self.secondarytype == 'AREA': shape, size
SetArea ==
    /\ pc = "area"
    /\ lights' = IF LightType(Role) \in AreaKinds
                 THEN [lights EXCEPT ![Len(lights)].data =
                         SetAttr(SetAttr(@, "shape", LightShape(Role)),
                                 "size", LightSize(Role))]
                 ELSE lights
    /\ NextLight("area")
    /\ UNCHANGED << view, scene_camera, cameras, local >>

\* if self.secondarytype == 'SPOT': spot_size, spot_blend
SetSpot ==
    /\ pc = "spot"
    /\ lights' = IF LightType(Role) \in SpotKinds
                 THEN [lights EXCEPT ![Len(lights)].data =
                         SetAttr(SetAttr(@, "spot_size", LightSpotSize(Role)),
                                 "spot_blend", LightSpotBlend(Role))]
                 ELSE lights
    /\ NextLight("spot")
    /\ UNCHANGED << view, scene_camera, cameras, local >>

\* if self.secondarytype in {'POINT', 'SPOT'}: shadow_soft_size
SetShadow ==
    /\ pc = "shadow"
    /\ lights' = IF LightType(Role) \in ShadowKinds
                 THEN WithData("shadow_soft_size", LightShadowSoftSize(Role))
                 ELSE lights
    /\ NextLight("shadow")
    /\ UNCHANGED << view, scene_camera, cameras, local >>

\* backLamp = bpy.data.objects.new(name="TriLamp-Back", object_data=backData)
ObjectsNew ==
    /\ pc = "objects_new"
    /\ lights' = WithLast("hasObj", TRUE)
    /\ NextLight("objects_new")
    /\ UNCHANGED << view, scene_camera, cameras, local >>

\* collection.objects.link(backLamp)
Link ==
    /\ pc = "link"
    /\ lights' = WithLast("linked", TRUE)
    /\ NextLight("link")
    /\ UNCHANGED << view, scene_camera, cameras, local >>

\* backLamp.location = (backx, backy, self.height)
SetLocation ==
    /\ pc = "location"
    /\ lights' = [lights EXCEPT ![Len(lights)].location = LightLocation(Role),
                                ![Len(lights)].placed = TRUE]
    /\ NextLight("location")
    /\ UNCHANGED << view, scene_camera, cameras, local >>

\* trackToBack = backLamp.constraints.new(type="TRACK_TO")
ConstraintsNew ==
    /\ pc = "constraints_new"
    /\ lights' = [lights EXCEPT ![Len(lights)].constraints =
                     Append(@, [type |-> "TRACK_TO"])]
    /\ NextLight("constraints_new")
    /\ UNCHANGED << view, scene_camera, cameras, local >>

\* trackToBack.target = obj
SetTarget ==
    /\ pc = "target"
    /\ lights' = WithConstraint("target", TrackTarget)
    /\ NextLight("target")
    /\ UNCHANGED << view, scene_camera, cameras, local >>

\* trackToBack.track_axis = "TRACK_NEGATIVE_Z"
SetTrackAxis ==
    /\ pc = "track_axis"
    /\ lights' = WithConstraint("track_axis", "TRACK_NEGATIVE_Z")
    /\ NextLight("track_axis")
    /\ UNCHANGED << view, scene_camera, cameras, local >>

\* trackToBack.up_axis = "UP_Y"
SetUpAxis ==
    /\ pc = "up_axis"
    /\ lights' = WithConstraint("up_axis", "UP_Y")
    /\ NextLight("up_axis")
    /\ UNCHANGED << view, scene_camera, cameras, local >>

\* The statements of the try block.
InTry == pc \notin {"idle", "return", "done"}

\* Mutant: the handler falls through to the normal return.
ExceptResult_Finished == "FINISHED"

\* What the handler of "except Exception" returns.
ExceptResult == "CANCELLED"

\* The statement at pc raises: its effect does not happen; the handler
\* reports a warning and returns {'CANCELLED'}.
Raise ==
    /\ InTry
    /\ raised' = TRUE
    /\ reports' = Append(reports, << "WARNING", ReportException >>)
    /\ result' = ExceptResult
    /\ pc' = "done"
    /\ UNCHANGED << scene_in, scene_out, local, cur >>

\* return {'FINISHED'}
Return ==
    /\ pc = "return"
    /\ result' = "FINISHED"
    /\ pc' = "done"
    /\ UNCHANGED << scene_in, scene_out, local, cur, reports, raised >>

Next ==
    \/ Invoke
    \/ ReadContext
    \/ CamerasNew
    \/ CameraObjectNew
    \/ CameraLink
    \/ SetSceneCamera
    \/ CameraToView
    \/ ViewCamera
    \/ ReadActive
    \/ CalcEnergy
    \/ CalcDelta
    \/ CancelZeroLength
    \/ Normalize
    \/ LightsNew
    \/ SetEnergy
    \/ SetArea
    \/ SetSpot
    \/ SetShadow
    \/ ObjectsNew
    \/ Link
    \/ SetLocation
    \/ ConstraintsNew
    \/ SetTarget
    \/ SetTrackAxis
    \/ SetUpAxis
    \/ Raise
    \/ Return

Spec == Init /\ [][Next]_vars

\* ------------------------------------------------------- properties

Done == pc = "done"

Finished == result = "FINISHED"

Cancelled == result = "CANCELLED"

Has(d, k) == k \in DOMAIN d

IsKey(i) == lights[i].name = "TriLamp-Key"

IsFill(i) == lights[i].name = "TriLamp-Fill"

IsBack(i) == lights[i].name = "TriLamp-Back"

Indices == 1 .. Len(lights)

\* The camera execute works with: the one it created, else the context's.
UsedCamera == IF cameras # << >> THEN NewCam ELSE ContextCamera

\* execute has passed the camera block and read the active object.
Resolved == local.obj # None

\* The two rational vectors are the same point.
SamePoint(a, b) ==
    /\ a.x * b.den = b.x * a.den
    /\ a.y * b.den = b.y * a.den
    /\ a.z * b.den = b.z * a.den

\* A track-to constraint with all its fields set.
FullConstraint(c) ==
    /\ c.type = "TRACK_TO"
    /\ Has(c, "target")
    /\ Has(c, "track_axis")
    /\ Has(c, "up_axis")

\* C1: energy split.  With base energy E and contrast C, a light's energy e
\* (in 1/EnergyScale) is: for C > 0, E for the key light and (E/100)*C for the
\* fill and back lights; for C <= 0, (E/100)*|C| for the key light and E for
\* the fill and back lights.  Fill and back energies are equal.
C1_EnergySplit ==
    LET E == props.energy
        C == props.contrast
    IN  /\ \A i \in Indices :
              Has(lights[i].data, "energy") =>
                 LET e == lights[i].data.energy
                 IN  /\ (C > 0 /\ IsKey(i)) => e = E * EnergyScale
                     /\ (C > 0 /\ ~IsKey(i)) => e * 100 = E * C * EnergyScale
                     /\ (C <= 0 /\ IsKey(i)) =>
                            e * 100 = E * abs(C) * EnergyScale
                     /\ (C <= 0 /\ ~IsKey(i)) => e = E * EnergyScale
        /\ \A i \in Indices, j \in Indices :
              ( /\ IsFill(i) /\ IsBack(j)
                /\ Has(lights[i].data, "energy")
                /\ Has(lights[j].data, "energy") )
              => lights[i].data.energy = lights[j].data.energy

\* A finished run with a negative contrast: energy 2, contrast -50 gives a key
\* light of 1.00 and fill and back lights of 2.00.
C1_Witness ==
    /\ Finished
    /\ props.energy = 2
    /\ props.contrast = -50
    /\ \E i \in Indices : IsKey(i) /\ lights[i].data.energy = 100
    /\ \E i \in Indices : IsFill(i) /\ lights[i].data.energy = 200
    /\ \E i \in Indices : IsBack(i) /\ lights[i].data.energy = 200

\* C2: degenerate geometry.  When the active object's position equals the
\* position of the camera execute uses, a completed call has reported a
\* warning, returned CANCELLED, and created no light, no constraint and no
\* camera.
C2_DegenerateCreatesNothing ==
    ( /\ Done
      /\ ~raised
      /\ Resolved
      /\ LocationOf(local.camera) = LocationOf(local.obj) )
    => /\ Cancelled
       /\ \E k \in 1 .. Len(reports) : reports[k][1] = "WARNING"
       /\ lights = << >>
       /\ cameras = << >>

\* The part of C2 the code keeps: when the camera existed before the call and
\* is at the active object's position, a completed call has reported the
\* cancellation warning, returned CANCELLED and created nothing.
C2_ExistingCameraCreatesNothing ==
    ( /\ Done
      /\ ~raised
      /\ Resolved
      /\ local.camera # NewCam
      /\ LocationOf(local.camera) = LocationOf(local.obj) )
    => /\ Cancelled
       /\ reports = << << "WARNING", ReportCancelled >> >>
       /\ lights = << >>
       /\ cameras = << >>
       /\ scene_camera = entry.scene_camera

\* The camera is the active object itself: execute cancels.
C2_ExistingCameraWitness ==
    /\ Done
    /\ Cancelled
    /\ ~raised
    /\ active = Cam0
    /\ local.camera = Cam0
    /\ lights = << >>

\* C3: light creation is one transaction for the caller.  A completed call
\* has returned FINISHED or CANCELLED; unless it returned CANCELLED all three
\* lights exist; a FINISHED call has created exactly three lights, one
\* TriLamp-Key, one TriLamp-Fill and one TriLamp-Back.
C3_ThreeLightsOrCancelled ==
    Done =>
       /\ result \in {"FINISHED", "CANCELLED"}
       /\ Cancelled \/ Len(lights) = 3
       /\ Finished =>
             /\ Len(lights) = 3
             /\ Cardinality({i \in Indices : IsKey(i)}) = 1
             /\ Cardinality({i \in Indices : IsFill(i)}) = 1
             /\ Cardinality({i \in Indices : IsBack(i)}) = 1
             /\ \A i \in Indices : lights[i].hasObj /\ lights[i].linked

C3_Witness ==
    /\ Done
    /\ Finished
    /\ Len(lights) = 3
    /\ \A i \in Indices : lights[i].linked

\* C4: every failure degrades to a cancelled operation.  The step at which a
\* statement raises ends execute with CANCELLED and one more report, the
\* generic WARNING, and leaves every created entity and the scene camera as
\* they were; a call that raised never shows FINISHED.
C4_FailureDegrades ==
    /\ [](raised => (Done /\ Cancelled))
    /\ [][ (raised' /\ ~raised) =>
              /\ pc' = "done"
              /\ result' = "CANCELLED"
              /\ reports' = Append(reports, << "WARNING", ReportException >>)
              /\ lights' = lights
              /\ cameras' = cameras
              /\ scene_camera' = scene_camera ]_vars

\* A call that fails while the second light is being built: the camera it
\* created and both lights are still there.
C4_Witness ==
    /\ raised
    /\ Cancelled
    /\ Len(cameras) = 1
    /\ Len(lights) = 2
    /\ lights[1].linked

\* C5: placement.  With d = (camera - object) / |camera - object|, a placed
\* light is at (object.x + distance*rx, object.y + distance*ry, height), with
\* (rx, ry) = (cos t * d.x - sin t * d.y, sin t * d.x + cos t * d.y) and
\* t = backangle (back), rightangle (fill), -leftangle (key).
C5_Placement ==
    \A i \in Indices :
       lights[i].placed =>
          LET o == LocationOf(active)
              delta == VecSub(LocationOf(UsedCamera), o)
              len == sqrt(SumSquares(delta))
              t == CASE IsBack(i) -> props.backangle
                     [] IsFill(i) -> props.rightangle
                     [] IsKey(i) -> -props.leftangle
              ct == SinDeg(t + 90)
              st == SinDeg(t)
              D == len * TrigScale
              l == lights[i].location
          IN  /\ len * len = SumSquares(delta)
              /\ l.x * D =
                    l.den * (o.x * D
                             + props.distance * (ct * delta.x - st * delta.y))
              /\ l.y * D =
                    l.den * (o.y * D
                             + props.distance * (st * delta.x + ct * delta.y))
              /\ l.z = props.height * l.den

\* The default call: object at the origin, camera at (0, -5, 0), distance 5,
\* height 5, left angle 26: the key light is at (-2.190, -4.495, 5).
C5_Witness ==
    /\ Finished
    /\ LocationOf(active) = Origin
    /\ LocationOf(UsedCamera) = Vec(0, -5, 0)
    /\ props.distance = 5 /\ props.height = 5 /\ props.leftangle = 26
    /\ \E i \in Indices :
          /\ IsKey(i)
          /\ lights[i].location.x * 1000 = -2190 * lights[i].location.den
          /\ lights[i].location.y * 1000 = -4495 * lights[i].location.den
          /\ lights[i].location.z = 5 * lights[i].location.den

\* The kind and the values the light at index i is to take: the key set for
\* the key light, the secondary set for the fill and back lights.
KindOf(i) == IF IsKey(i) THEN props.primarytype ELSE props.secondarytype

\* r is deg degrees in milliradians, rounded down.
IsRadiansOf(r, deg) == r * 180 <= deg * MilliPi /\ deg * MilliPi < (r + 1) * 180

\* C6: per-type parameter propagation.  For every light whose data is
\* configured: shape and size are written iff its kind is AREA, spot size (in
\* radians) and spot blend iff SPOT, shadow soft size iff POINT or SPOT; the
\* key light takes kind and values from the key set, the fill and back lights
\* from the secondary set.
C6_TypePropagation ==
    \A i \in Indices :
       lights[i].hasObj =>
          LET d == lights[i].data
              k == KindOf(i)
          IN  /\ d.type = k
              /\ Has(d, "shape") <=> k = "AREA"
              /\ Has(d, "size") <=> k = "AREA"
              /\ Has(d, "spot_size") <=> k = "SPOT"
              /\ Has(d, "spot_blend") <=> k = "SPOT"
              /\ Has(d, "shadow_soft_size") <=> k \in {"POINT", "SPOT"}
              /\ k = "AREA" =>
                    /\ d.shape = IF IsKey(i) THEN props.key_light_shape
                                 ELSE props.secondary_light_shape
                    /\ d.size = IF IsKey(i) THEN props.key_light_size
                                ELSE props.secondary_light_size
              /\ k = "SPOT" =>
                    /\ IsRadiansOf(d.spot_size,
                                   IF IsKey(i) THEN props.spot_size_key
                                   ELSE props.spot_size_fill)
                    /\ d.spot_blend = IF IsKey(i) THEN props.spot_blend_key
                                      ELSE props.spot_blend_fill
              /\ k \in {"POINT", "SPOT"} =>
                    d.shadow_soft_size =
                       IF IsKey(i) THEN props.shadow_soft_size_key
                       ELSE props.shadow_soft_size_fill

\* A finished call with a SPOT key light of 90 degrees and AREA fill and back
\* lights: the key light has its spot angle (1.571 rad) and blend and no
\* shape or size; the fill light has shape and size and no spot angle.
C6_Witness ==
    /\ Finished
    /\ props.primarytype = "SPOT"
    /\ props.secondarytype = "AREA"
    /\ props.spot_size_key = 90
    /\ \E i \in Indices :
          /\ IsKey(i)
          /\ lights[i].data.spot_size = 1571
          /\ lights[i].data.spot_blend = 300
          /\ ~Has(lights[i].data, "shape")
    /\ \E i \in Indices :
          /\ IsFill(i)
          /\ lights[i].data.shape = "RECTANGLE"
          /\ ~Has(lights[i].data, "spot_size")

\* C7: orientation.  After FINISHED each of the three lights carries exactly
\* one track-to constraint, its target the object that was active, track axis
\* negative Z, up axis Y; the target is not the camera execute used.
C7_Orientation ==
    Finished =>
       /\ Len(lights) = 3
       /\ \A i \in Indices :
             /\ Len(lights[i].constraints) = 1
             /\ FullConstraint(lights[i].constraints[1])
             /\ lights[i].constraints[1].target = active
             /\ lights[i].constraints[1].target # UsedCamera
             /\ lights[i].constraints[1].track_axis = "TRACK_NEGATIVE_Z"
             /\ lights[i].constraints[1].up_axis = "UP_Y"

\* A finished call in which a camera object is the active object and execute
\* created its own camera: the lights aim at the active object.
C7_Witness ==
    /\ Finished
    /\ active = Cam0
    /\ UsedCamera = NewCam
    /\ \A i \in Indices : lights[i].constraints[1].target = Cam0

\* The context had a camera when execute started.
CameraWasAvailable ==
    IF view.type = "VIEW_3D" THEN entry.view_camera # None
    ELSE entry.scene_camera # None

\* The direction has been computed: execute is at the length test, or has
\* cancelled on it, or has gone on to the lights.
DirectionComputed ==
    \/ pc = "check_length"
    \/ lights # << >>
    \/ (Done /\ ~raised)

\* C8: camera auto-creation.  execute creates at most one camera.  With a
\* camera available it creates none and leaves the scene camera as it was.
\* With none available, once the direction is computed or a light exists,
\* exactly one camera has been created, linked and made the scene camera, and
\* the direction is that camera's position minus the object's.
C8_CameraAutoCreation ==
    /\ Len(cameras) <= 1
    /\ CameraWasAvailable =>
          /\ cameras = << >>
          /\ scene_camera = entry.scene_camera
    /\ (~CameraWasAvailable /\ DirectionComputed) =>
          /\ Len(cameras) = 1
          /\ cameras[1].hasObj
          /\ cameras[1].linked
          /\ scene_camera = NewCam
          /\ cameras[1].location = view.viewpoint
          /\ local.delta_position =
                VecSub(cameras[1].location, LocationOf(active))

C8_Witness ==
    /\ Finished
    /\ ~CameraWasAvailable
    /\ Len(cameras) = 1
    /\ scene_camera = NewCam
    /\ Len(lights) = 3

\* C9: creation order.  In every state the lights are a prefix of (back,
\* fill, key); a light is linked before its position or its constraint is
\* set; every light but the last created is linked, placed and carries its
\* complete constraint.
C9_CreationOrder ==
    /\ Len(lights) <= 3
    /\ \A i \in Indices :
          /\ lights[i].name =
                << "TriLamp-Back", "TriLamp-Fill", "TriLamp-Key" >>[i]
          /\ (lights[i].placed \/ lights[i].constraints # << >>) =>
                (lights[i].hasObj /\ lights[i].linked)
          /\ i < Len(lights) =>
                /\ lights[i].linked
                /\ lights[i].placed
                /\ Len(lights[i].constraints) = 1
                /\ FullConstraint(lights[i].constraints[1])

\* A call that fails before the fill light is linked: the back light is
\* complete, the fill light is not, there is no key light.
C9_Witness ==
    /\ raised
    /\ Len(lights) = 2
    /\ lights[1].placed
    /\ FullConstraint(lights[1].constraints[1])
    /\ lights[2].hasObj
    /\ ~lights[2].linked

\* The camera execute uses is straight above or below the active object.
VerticalCamera ==
    /\ Resolved
    /\ LocationOf(local.camera).x = LocationOf(local.obj).x
    /\ LocationOf(local.camera).y = LocationOf(local.obj).y
    /\ LocationOf(local.camera).z # LocationOf(local.obj).z

\* C10: vertical camera.  When the camera differs from the object only in z,
\* the length test does not cancel: the cancellation warning is not reported,
\* a call in which nothing raises returns FINISHED with three lights, and
\* every placed light is at (object.x, object.y, height).
C10_VerticalCamera ==
    VerticalCamera =>
       /\ \A k \in 1 .. Len(reports) : reports[k][2] # ReportCancelled
       /\ pc = "check_length" => local.vector_length # 0
       /\ (Done /\ ~raised) => (Finished /\ Len(lights) = 3)
       /\ \A i \in Indices :
             lights[i].placed =>
                SamePoint(lights[i].location,
                          [ x |-> LocationOf(local.obj).x,
                            y |-> LocationOf(local.obj).y,
                            z |-> props.height, den |-> 1 ])

\* A finished call with the camera two units below an object that is not at
\* the origin: all three lights are placed at the same point.
C10_Witness ==
    /\ Finished
    /\ VerticalCamera
    /\ LocationOf(local.obj) = Vec(1, -2, 3)
    /\ LocationOf(local.camera) = Vec(1, -2, 1)
    /\ \A i \in Indices :
          /\ lights[i].placed
          /\ SamePoint(lights[i].location, lights[1].location)

====
